---- MODULE Spec2Model ----
(***************************************************************************)
(* The optimistic software transactional memory of stm-reworked-go:       *)
(* stm/transaction.go (Transaction, its Go loop and the four phases),     *)
(* stm/memory-cells.go (MemoryCell, gob-encoded payloads) and the          *)
(* tmanager (STM, Exec).  Every critical section of stmMutex is one       *)
(* atomic step; the code between two critical sections is folded into     *)
(* the step that precedes it.                                              *)
(***************************************************************************)
EXTENDS Integers, Sequences, FiniteSets, TLC

\* Number of successive Exec calls the driver makes (test2WithSTM loops 1080 times).
MaxRounds == 2

\* The transactions handed to Exec (t1, t2 of test2WithSTM) and the cell indices.
Txns == {1, 2, 3}
Cells == {0, 1}

\* _Ownerships[i] == nil
NoOwner == 0

VARIABLES
    mem,        \* _Memory[i].data: the bytes held in each cell's buffer
    owner,      \* _Ownerships: cell index -> owning transaction or NoOwner
    actions,    \* t.actions: per transaction, a sequence of actions (op sequences)
    status,     \* t.metadata.status
    version,    \* t.metadata.version
    oldValues,  \* t.metadata.oldValues: cell -> Data (partial map)
    readSet,    \* t.metadata.readSet
    writeSet,   \* t.metadata.writeSet
    isScanning, \* t.isScanning
    pc,         \* position of each transaction's goroutine
    ai,         \* index of the action being run (scanActions / executeActions)
    oi,         \* index of the operation inside that action
    idx,        \* loop index of takeOwnerships / commit / rollback
    loc,        \* the action's local data containers: cell -> last value decoded
    wg,         \* the sync.WaitGroup counter of Exec
    mainpc,     \* the caller of Exec: "idle" or "waiting"
    round,      \* number of Exec calls that returned
    scn,        \* which program (set of transactions) was built
    hVerAtExec, \* history: version of each transaction when Exec was called
    hMemAtExec, \* history: cell contents when Exec was called
    hInstalled, \* history: cells the current attempt of t has installed
    hSrc,       \* history: who installed a cell's payload, and the fate of that attempt
    hReadSrc,   \* history: origin of the payload last returned by ReadT to t
    hRetried,   \* history: t rolled back an attempt since Exec was called
    hSnap,      \* history: values read by the last committed attempt of t
    hWhy,       \* history: what sent t to its last rollback since Exec was called
    tvars,      \* t.tvars: name -> Data (partial map)
    tv,         \* the action's local v of v := t.GetTVar(name)
    hGet,       \* history: the last GetTVar call of t: phase, name, value on record
    hPut,       \* history: per name, the value last seeded by Where or put outside a scan
    hStaged,    \* history: cell -> Data staged by WriteT in the current attempt of t
    hReadBack,  \* history: the last execute-phase ReadT of t: what was staged for
                \* the cell before it (nil if nothing) and what it returned
    hCodec,     \* history: a decode in ReadT or an encode in commit failed for t
                \* since Exec was called
    hScanRead,  \* history: cell -> Data that ReadT handed to t in the current scan
                \* (nil when the decode failed)
    hExecRead,  \* history: cell -> Data that ReadT decoded for t in the current
                \* execute phase
    hChanged,   \* history: cells in which another transaction installed a payload
                \* other than the one t's execute-phase ReadT decoded, since
                \* that ReadT
    hAtt,       \* history: cells and ownerships when the current attempt of t began,
                \* recorded when no other transaction is running
    store,      \* MakeMemCell: stm._Memory as the cells appended so far
    mkpc,       \* MakeMemCell: position of each calling thread
    mkCell,     \* MakeMemCell: newMemCell of each calling thread
    mkSeen,     \* MakeMemCell: length of _Memory each thread is sure to see
    mkLeft,     \* MakeMemCell: calls each thread has still to make
    mkFatal     \* MakeMemCell: log.Fatalln has ended the process

vars == <<mem, owner, actions, status, version, oldValues, readSet, writeSet,
          isScanning, pc, ai, oi, idx, loc, wg, mainpc, round, scn,
          hVerAtExec, hMemAtExec, hInstalled, hSrc, hReadSrc, hRetried, hSnap,
          hWhy, hAtt, tvars, tv, hGet, hPut, hStaged, hReadBack,
          hCodec, hScanRead, hExecRead, hChanged, store, mkpc, mkCell, mkSeen, mkLeft, mkFatal>>

----------------------------------------------------------------------------
(* Value codec: encoding/gob as used by writeData / readData.              *)

\* gob's signed-to-unsigned mapping: i >= 0 -> i<<1, i < 0 -> (^i<<1)|1
GobUint(v) == IF v >= 0 THEN 2 * v ELSE 2 * (-v - 1) + 1

\* gob's unsigned integer: one byte below 128, else negated byte count and
\* the big-endian bytes.
GobUintBytes(u) ==
    IF u < 128 THEN <<u>>
    ELSE IF u < 256 THEN <<255, u>>
    ELSE <<254, u \div 256, u % 256>>

\* Data is an interface value: <<v>> holds the int v, <<>> is the nil
\* interface (a map lookup of a missing key).
NilData == <<>>
Box(v) == <<v>>

\* encoder.Encode(data) for an int payload: message length, type id of int
\* (2, sent as 4), the zero delta of a top-level singleton, the value.
\* Encoding the nil interface fails and writes nothing.
Encode(d) ==
    IF d = NilData THEN <<>>
    ELSE LET body == <<4, 0>> \o GobUintBytes(GobUint(d[1]))
         IN  <<Len(body)>> \o body

\* Whether decoder.Decode succeeds on the buffer.
Decodable(b) ==
    /\ Len(b) >= 4
    /\ b[1] = Len(b) - 1
    /\ b[2] = 4
    /\ b[3] = 0
    /\ \/ b[4] < 128 /\ Len(b) = 4
       \/ b[4] = 255 /\ Len(b) = 5
       \/ b[4] = 254 /\ Len(b) = 6

\* decoder.Decode(dataContainer) on a decodable buffer.
Decode(b) ==
    LET u == IF b[4] < 128 THEN b[4]
             ELSE IF b[4] = 255 THEN b[5]
             ELSE b[5] * 256 + b[6]
    IN  IF u % 2 = 0 THEN u \div 2 ELSE -((u + 1) \div 2)

\* Mutant of readData: the decoder consumes the buffer and nothing is
\* written back.
readDataConsumes(b) == <<>>

\* readData: decode (consuming the buffer) and re-encode a copy into it.
\* Returns the buffer left behind.
readData(b) == IF Decodable(b) THEN Encode(Box(Decode(b))) ELSE <<>>

\* writeData: reset the buffer, then encode into it.
writeData(d) == Encode(d)

\* The decoded contents of the cell store
Contents(m) == [c \in Cells |-> IF Decodable(m[c]) THEN Box(Decode(m[c])) ELSE NilData]

----------------------------------------------------------------------------
(* Helpers of utils.go and of the maps.                                     *)

\* contains(container, data)
contains(container, data) == \E i \in 1..Len(container) : container[i] = data

\* m[k] = v on a Go map
Put(m, k, v) == [x \in (DOMAIN m) \cup {k} |-> IF x = k THEN v ELSE m[x]]

\* m[k] on a Go map of Data: the nil interface when absent
Get(m, k) == IF k \in DOMAIN m THEN m[k] ELSE NilData

\* make(map, 0)
EmptyMap == [x \in {} |-> 0]

----------------------------------------------------------------------------
(* The programs: transactions built with NewT().Do(...).Done().             *)
(* An action is a sequence of operations                                   *)
(*   R c      : t.ReadT(c, &x_c)             (result ignored)              *)
(*   W c s k  : if !t.WriteT(c, x_s + k) { return false }                  *)
(*   N c      : if !t.WriteT(c, nil) { return false }                      *)
(*   RG c     : if v != nil { t.ReadT(c, &x_c) }, v the last GetTVar result *)
(*   T / F    : return true / return false                                 *)
(*   G n      : v := t.GetTVar(n)                                          *)
(*   P n d    : t.PutTVar(n, d)                                            *)
(* and returns true when it runs off its end.                              *)

R(c) == [op |-> "R", cell |-> c, src |-> c, add |-> 0]
W(c, s, k) == [op |-> "W", cell |-> c, src |-> s, add |-> k]
WNil(c) == [op |-> "N", cell |-> c, src |-> c, add |-> 0]
RetTrue == [op |-> "T", cell |-> 0, src |-> 0, add |-> 0]
RetFalse == [op |-> "F", cell |-> 0, src |-> 0, add |-> 0]
G(n) == [op |-> "G", name |-> n]
RG(c) == [op |-> "RG", cell |-> c, src |-> c, add |-> 0]
P(n, d) == [op |-> "P", name |-> n, val |-> d]

\* test2WithSTM: T1 subtracts 2 from the cell, T2 adds 3 to it.
ProgCounter == [t \in Txns |->
    IF t = 1 THEN << <<R(0), W(0, 0, -2)>> >>
             ELSE IF t = 2 THEN << <<R(0), W(0, 0, 3)>> >> ELSE << >>]

\* T1 reads cell 0 and writes cells 0 and 1; T2 only reads both.
ProgReader == [t \in Txns |->
    IF t = 1 THEN << <<R(0), W(0, 0, 1), W(1, 0, 1)>> >>
             ELSE IF t = 2 THEN << <<R(0), R(1), RetTrue>> >> ELSE << >>]

\* T1 as above; T2 reads and writes cell 1.
ProgPair == [t \in Txns |->
    IF t = 1 THEN << <<R(0), W(0, 0, 1), W(1, 0, 1)>> >>
             ELSE IF t = 2 THEN << <<R(1), W(1, 1, 10)>> >> ELSE << >>]

\* T1 reads cell 0 and writes cell 1; T2 reads cell 1 and writes cell 0.
ProgCross == [t \in Txns |->
    IF t = 1 THEN << <<R(0), W(1, 0, 1)>> >>
             ELSE IF t = 2 THEN << <<R(1), W(0, 1, 1)>> >> ELSE << >>]

\* MySTM.Exec(t1): T1 runs alone; it reads cell 1, reads cell 0 and writes
\* cell 0.  T2 is never handed to Exec.
ProgSolo == [t \in Txns |->
    IF t = 1 THEN << <<R(1), R(0), W(0, 0, 1)>> >>
             ELSE IF t = 2 THEN << >> ELSE << >>]

\* T1 writes cell 0 then cell 1 (two actions); T2 writes cell 1 then cell 0.
ProgOpposite == [t \in Txns |->
    IF t = 1 THEN << <<W(0, 0, 1)>>, <<W(1, 1, 2)>> >>
             ELSE IF t = 2 THEN << <<W(1, 1, 5), W(0, 0, 6)>> >> ELSE << >>]

\* T1's second action returns false every time; T2 adds 3 to the cell T1
\* writes first.
ProgAbort == [t \in Txns |->
    IF t = 1 THEN << <<R(0), W(0, 0, 1)>>, <<RetFalse>>, <<W(1, 1, 1)>> >>
             ELSE IF t = 2 THEN << <<R(0), W(0, 0, 3)>> >> ELSE << >>]

\* T1, built with Where("y", 9), reads y, puts x = 7, reads x back and
\* writes cell 0; T2 reads the transactional variable x and cell 0.
ProgTVar == [t \in Txns |->
    IF t = 1 THEN << <<G("y"), P("x", Box(7)), G("x"), W(0, 0, 1)>> >>
             ELSE IF t = 2 THEN << <<G("x"), R(0)>> >> ELSE << >>]

\* T1 writes 5 to cell 0 in its first action and reads cell 0 in its
\* second; T2 reads cell 0.
ProgWriteRead == [t \in Txns |->
    IF t = 1 THEN << <<W(0, 0, 5)>>, <<R(0), RetTrue>> >>
             ELSE IF t = 2 THEN << <<R(0), RetTrue>> >> ELSE << >>]

\* T1 writes the nil interface to cell 0; T2 reads cell 0.
ProgNilWrite == [t \in Txns |->
    IF t = 1 THEN << <<WNil(0)>> >>
             ELSE IF t = 2 THEN << <<R(0), RetTrue>> >> ELSE << >>]

\* T1 only reads cell 0 (which holds 3); T2 writes 5 to it and T3 writes 3.
ProgOverwrite == [t \in Txns |->
    IF t = 1 THEN << <<R(0), RetTrue>> >>
             ELSE IF t = 2 THEN << <<W(0, 0, 5)>> >> ELSE << <<W(0, 0, 3)>> >>]

\* T1, built with Where("y", 9), reads y and, where y is not nil, reads
\* cell 0; T2 writes 5 to cell 0.
ProgGuardedRead == [t \in Txns |->
    IF t = 1 THEN << <<G("y"), RG(0), RetTrue>> >>
             ELSE IF t = 2 THEN << <<W(0, 0, 5)>> >> ELSE << >>]

Programs == <<ProgCounter, ProgReader, ProgPair, ProgCross, ProgSolo,
              ProgOpposite, ProgAbort, ProgTVar, ProgWriteRead, ProgNilWrite,
              ProgOverwrite, ProgGuardedRead>>

\* NewT: tvars = make(map[string]Data)
NoTVars == [t \in Txns |-> EmptyMap]

\* Where(name, value): the transactional variables each program seeds.
Seeded == <<NoTVars, NoTVars, NoTVars, NoTVars, NoTVars, NoTVars, NoTVars,
            [t \in Txns |-> IF t = 1 THEN Put(EmptyMap, "y", Box(9)) ELSE EmptyMap],
            NoTVars, NoTVars, NoTVars,
            [t \in Txns |-> IF t = 1 THEN Put(EmptyMap, "y", Box(9)) ELSE EmptyMap]>>

\* MakeMemCell(data): the initial payload of the cells of each program.
InitData == <<[c \in Cells |-> 3], [c \in Cells |-> 0],
              [c \in Cells |-> 0], [c \in Cells |-> 0],
              [c \in Cells |-> 3], [c \in Cells |-> 0],
              [c \in Cells |-> 3], [c \in Cells |-> 3],
              [c \in Cells |-> 3], [c \in Cells |-> 3],
              [c \in Cells |-> 3], [c \in Cells |-> 3]>>

\* The transactions each program hands to Exec.
ExecArgs == <<{1, 2}, {1, 2}, {1, 2}, {1, 2}, {1}, {1, 2}, {1, 2}, {1, 2},
              {1, 2}, {1, 2}, Txns, {1, 2}>>

\* The calls of Exec each program makes: ProgOpposite and ProgOverwrite call
\* it once, the others call it in a loop.
ExecCalls == <<MaxRounds, MaxRounds, MaxRounds, MaxRounds, MaxRounds, 1,
               MaxRounds, MaxRounds, MaxRounds, MaxRounds, 1, MaxRounds>>

\* Origin of a payload: the transaction whose attempt installed it (NoOwner
\* for MakeMemCell) and whether that attempt is "pending", "committed" or
\* "aborted" (ended in rollback).
Origin(st, w) == [st |-> st, w |-> w]

\* The attempt of t ends with fate st: its pending payloads get that fate.
Resolve(o, t, st) == IF o.st = "pending" /\ o.w = t THEN Origin(st, t) ELSE o

----------------------------------------------------------------------------
\* hAtt of an attempt that began while another transaction was running:
\* nothing is recorded
\* Threads that call MakeMemCell, and the calls each of them makes
Makers == {1, 2}
MaxMakes == 2
NoCell == [cellIndex |-> 0, data |-> <<>>]

NotAlone == [alone |-> FALSE, mem |-> EmptyMap, owner |-> EmptyMap]

Init ==
    /\ scn \in 1..Len(Programs)
    /\ actions = Programs[scn]
    /\ mem = [c \in Cells |-> writeData(Box(InitData[scn][c]))]
    /\ owner = [c \in Cells |-> NoOwner]
    /\ status = [t \in Txns |-> FALSE]
    /\ version = [t \in Txns |-> 0]
    /\ oldValues = [t \in Txns |-> EmptyMap]
    /\ readSet = [t \in Txns |-> <<>>]
    /\ writeSet = [t \in Txns |-> <<>>]
    /\ isScanning = [t \in Txns |-> TRUE]
    /\ pc = [t \in Txns |-> "idle"]
    /\ ai = [t \in Txns |-> 1]
    /\ oi = [t \in Txns |-> 1]
    /\ idx = [t \in Txns |-> 1]
    /\ loc = [t \in Txns |-> [c \in Cells |-> 0]]
    /\ wg = 0
    /\ mainpc = "idle"
    /\ round = 0
    /\ hVerAtExec = [t \in Txns |-> 0]
    /\ hMemAtExec = mem
    /\ hInstalled = [t \in Txns |-> {}]
    /\ hSrc = [c \in Cells |-> Origin("committed", NoOwner)]
    /\ hReadSrc = [t \in Txns |-> Origin("committed", NoOwner)]
    /\ hRetried = [t \in Txns |-> FALSE]
    /\ hSnap = [t \in Txns |-> EmptyMap]
    /\ hWhy = [t \in Txns |-> "none"]
    /\ hAtt = [t \in Txns |-> NotAlone]
    /\ tvars = Seeded[scn]
    /\ tv = [t \in Txns |-> NilData]
    /\ hGet = [t \in Txns |-> [scan |-> TRUE, name |-> "", want |-> NilData]]
    /\ hPut = Seeded[scn]
    /\ hStaged = [t \in Txns |-> EmptyMap]
    /\ hReadBack = [t \in Txns |-> [staged |-> NilData, got |-> NilData]]
    /\ hCodec = [t \in Txns |-> FALSE]
    /\ hScanRead = [t \in Txns |-> EmptyMap]
    /\ hExecRead = [t \in Txns |-> EmptyMap]
    /\ hChanged = [t \in Txns |-> {}]
    /\ store = <<>>
    /\ mkpc = [k \in Makers |-> "idle"]
    /\ mkCell = [k \in Makers |-> NoCell]
    /\ mkSeen = [k \in Makers |-> 0]
    /\ mkLeft = [k \in Makers |-> MaxMakes]
    /\ mkFatal = FALSE

----------------------------------------------------------------------------
(* Positions inside scanActions / executeActions.                           *)

AtEnd(t) == ai[t] > Len(actions[t])
CurOp(t) == actions[t][ai[t]][oi[t]]

\* The statement t is at calls ReadT: a plain ReadT, or one in a branch
\* whose guard v != nil holds
Reads(t) ==
    \/ CurOp(t).op = "R"
    \/ CurOp(t).op = "RG" /\ tv[t] # NilData

\* ts of Exec(ts...)
Passed == ExecArgs[scn]

\* the action goes on to its next statement, or runs off its end (returns true)
NextOp(t) ==
    IF oi[t] < Len(actions[t][ai[t]])
    THEN /\ ai' = ai /\ oi' = [oi EXCEPT ![t] = @ + 1]
    ELSE /\ ai' = [ai EXCEPT ![t] = @ + 1] /\ oi' = [oi EXCEPT ![t] = 1]

\* the action returns: the loop over t.actions takes the next action
NextAction(t) ==
    /\ ai' = [ai EXCEPT ![t] = @ + 1]
    /\ oi' = [oi EXCEPT ![t] = 1]

hist0 == <<hVerAtExec, hMemAtExec, hInstalled, hSrc, hReadSrc, hRetried, hSnap, hAtt>>
hist == <<hist0, hWhy>>
tvs == <<tvars, tv, hGet, hPut>>
hrw == <<hStaged, hReadBack, hCodec, hScanRead, hExecRead, hChanged>>
meta == <<status, version, oldValues, readSet, writeSet>>
mk == <<store, mkpc, mkCell, mkSeen, mkLeft, mkFatal>>
main == <<wg, mainpc, round, scn, actions, mk>>

----------------------------------------------------------------------------
(* STM.Exec                                                                 *)

\* Exec(ts...): wg.Add(1) and t.Go(wg) for every transaction, then wg.Wait()
ExecCall ==
    /\ mainpc = "idle"
    /\ round < ExecCalls[scn]
    /\ wg' = Cardinality(Passed)
    /\ pc' = [t \in Txns |-> IF t \in Passed THEN "go" ELSE pc[t]]
    /\ mainpc' = "waiting"
    /\ hVerAtExec' = version
    /\ hMemAtExec' = mem
    /\ hRetried' = [t \in Txns |-> FALSE]
    /\ hWhy' = [t \in Txns |-> "none"]
    /\ hCodec' = [t \in Txns |-> FALSE]
    /\ UNCHANGED <<mem, owner, meta, isScanning, ai, oi, idx, loc, round, scn, mk,
                   actions, hInstalled, hSrc, hReadSrc, hSnap, hAtt, tvs,
                   hStaged, hReadBack, hScanRead, hExecRead, hChanged>>

\* Mutant of ExecReturn: Exec returns without wg.Wait(), as ForkAndExec does.
ExecReturnNoWait ==
    /\ mainpc = "waiting"
    /\ mainpc' = "idle"
    /\ round' = round + 1
    /\ UNCHANGED <<mem, owner, meta, isScanning, pc, ai, oi, idx, loc, wg, scn, mk,
                   actions, hist, tvs, hrw>>

\* wg.Wait() returns once the counter is zero
ExecReturn ==
    /\ mainpc = "waiting"
    /\ wg = 0
    /\ mainpc' = "idle"
    /\ round' = round + 1
    /\ UNCHANGED <<mem, owner, meta, isScanning, pc, ai, oi, idx, loc, wg, scn, mk,
                   actions, hist, tvs, hrw>>

----------------------------------------------------------------------------
(* Transaction.Go: the retry loop of one transaction's goroutine.           *)

\* Top of the for loop: status = false, then scanActions sets isScanning.
GoLoop(t) ==
    /\ pc[t] = "go"
    /\ status' = [status EXCEPT ![t] = FALSE]
    /\ isScanning' = [isScanning EXCEPT ![t] = TRUE]
    /\ ai' = [ai EXCEPT ![t] = 1]
    /\ oi' = [oi EXCEPT ![t] = 1]
    /\ loc' = [loc EXCEPT ![t] = [c \in Cells |-> 0]]
    /\ pc' = [pc EXCEPT ![t] = "scan"]
    /\ hInstalled' = [hInstalled EXCEPT ![t] = {}]
    /\ hStaged' = [hStaged EXCEPT ![t] = EmptyMap]
    /\ hScanRead' = [hScanRead EXCEPT ![t] = EmptyMap]
    /\ hExecRead' = [hExecRead EXCEPT ![t] = EmptyMap]
    /\ hChanged' = [hChanged EXCEPT ![t] = {}]
    /\ hAtt' = [hAtt EXCEPT ![t] =
           IF \A u \in Txns \ {t} : pc[u] = "idle"
           THEN [alone |-> TRUE, mem |-> mem, owner |-> owner]
           ELSE NotAlone]
    /\ UNCHANGED <<mem, owner, version, oldValues, readSet, writeSet, idx, main,
                   hVerAtExec, hMemAtExec, hSrc, hReadSrc, hRetried, hSnap,
                   hWhy, tvs, hReadBack, hCodec>>

\* ReadT while scanning: read the cell under the mutex, add it to the
\* readSet unless it is in the writeSet or already there; no backup is taken.
ScanReadT(t) ==
    /\ pc[t] = "scan" /\ ~AtEnd(t) /\ Reads(t)
    /\ LET c == CurOp(t).cell
           rStatus == Decodable(mem[c])
       IN  /\ mem' = [mem EXCEPT ![c] = readData(@)]
           /\ IF rStatus
              THEN /\ loc' = [loc EXCEPT ![t][c] = Decode(mem[c])]
                   /\ readSet' = [readSet EXCEPT ![t] =
                          IF ~contains(writeSet[t], c) /\ ~contains(@, c)
                          THEN Append(@, c) ELSE @]
                   /\ hReadSrc' = [hReadSrc EXCEPT ![t] = hSrc[c]]
              ELSE UNCHANGED <<loc, readSet, hReadSrc>>
           /\ hCodec' = [hCodec EXCEPT ![t] = @ \/ ~rStatus]
           /\ hScanRead' = [hScanRead EXCEPT ![t] = Put(@, c, Contents(mem)[c])]
    /\ NextOp(t)
    /\ UNCHANGED <<owner, status, version, oldValues, writeSet, isScanning, pc,
                   idx, main, hVerAtExec, hMemAtExec, hInstalled, hSrc, hRetried,
                   hSnap, hWhy, hAtt, tvs, hStaged, hReadBack, hExecRead,
                   hChanged>>

\* WriteT while scanning: add the cell to the writeSet, return true.
ScanWriteT(t) ==
    /\ pc[t] = "scan" /\ ~AtEnd(t) /\ CurOp(t).op \in {"W", "N"}
    /\ LET c == CurOp(t).cell
       IN  writeSet' = [writeSet EXCEPT ![t] =
               IF ~contains(@, c) THEN Append(@, c) ELSE @]
    /\ NextOp(t)
    /\ UNCHANGED <<mem, owner, status, version, oldValues, readSet, isScanning,
                   pc, idx, loc, main, hist, tvs, hrw>>

\* An action returns while scanning: its result is ignored.
ScanReturn(t) ==
    /\ pc[t] = "scan" /\ ~AtEnd(t) /\ CurOp(t).op \in {"T", "F"}
    /\ NextAction(t)
    /\ UNCHANGED <<mem, owner, meta, isScanning, pc, idx, loc, main, hist, tvs, hrw>>

\* scanActions is over: isScanning = false, takeOwnerships starts.
ScanEnd(t) ==
    /\ pc[t] = "scan" /\ AtEnd(t)
    /\ isScanning' = [isScanning EXCEPT ![t] = FALSE]
    /\ pc' = [pc EXCEPT ![t] = "own"]
    /\ idx' = [idx EXCEPT ![t] = 1]
    /\ UNCHANGED <<mem, owner, meta, ai, oi, loc, main, hist, tvs, hrw>>

\* Mutant of TakeOwnershipsRead: a cell owned by another transaction is
\* waited for instead of failing the pass.
TakeOwnershipsReadWaits(t) ==
    /\ pc[t] = "own" /\ idx[t] <= Len(writeSet[t])
    /\ LET o == owner[writeSet[t][idx[t]]]
       IN  /\ o \in {NoOwner, t}
           /\ IF o = NoOwner
              THEN /\ pc' = [pc EXCEPT ![t] = "ownSet"]
                   /\ idx' = idx
              ELSE /\ pc' = pc
                   /\ idx' = [idx EXCEPT ![t] = @ + 1]
    /\ UNCHANGED <<mem, owner, meta, isScanning, ai, oi, loc, main, hist, tvs, hrw>>

\* Mutant of TVars: NewT hands every transaction the map of the first one.
TVarsShared(t) == tvars[1]

\* t.tvars
TVars(t) == tvars[t]

\* Mutant of GetTVar: the isScanning test is left out.
GetTVarAlways(t, name) == Get(TVars(t), name)

\* GetTVar(name): nil while scanning, else t.tvars[name]
GetTVar(t, name) == IF isScanning[t] THEN NilData ELSE Get(TVars(t), name)

\* PutTVar(name, value): the map it leaves behind -- untouched while
\* scanning, else with t.tvars[name] = value
PutTVar(t, name, value) ==
    IF isScanning[t] THEN TVars(t) ELSE Put(TVars(t), name, value)

\* An action calls v := t.GetTVar(name), in either phase.
TVarGet(t) ==
    /\ pc[t] \in {"scan", "exec"} /\ ~AtEnd(t) /\ CurOp(t).op = "G"
    /\ tv' = [tv EXCEPT ![t] = GetTVar(t, CurOp(t).name)]
    /\ hGet' = [hGet EXCEPT ![t] =
           [scan |-> pc[t] = "scan", name |-> CurOp(t).name,
            want |-> Get(hPut[t], CurOp(t).name)]]
    /\ NextOp(t)
    /\ UNCHANGED <<mem, owner, meta, isScanning, pc, idx, loc, main, hist,
                   tvars, hPut, hrw>>

\* An action calls t.PutTVar(name, value), in either phase.
TVarPut(t) ==
    /\ pc[t] \in {"scan", "exec"} /\ ~AtEnd(t) /\ CurOp(t).op = "P"
    /\ tvars' = [tvars EXCEPT ![t] = PutTVar(t, CurOp(t).name, CurOp(t).val)]
    /\ hPut' = [hPut EXCEPT ![t] =
           IF pc[t] = "scan" THEN @ ELSE Put(@, CurOp(t).name, CurOp(t).val)]
    /\ NextOp(t)
    /\ UNCHANGED <<mem, owner, meta, isScanning, pc, idx, loc, main, hist,
                   tv, hGet, hrw>>

\* Mutant of TakeOwnershipsRead: Go ignores the false status and goes on to
\* executeActions.
TakeOwnershipsReadGoesOn(t) ==
    /\ pc[t] = "own" /\ idx[t] <= Len(writeSet[t])
    /\ LET o == owner[writeSet[t][idx[t]]]
       IN  IF o = NoOwner
           THEN /\ pc' = [pc EXCEPT ![t] = "ownSet"]
                /\ UNCHANGED <<idx, hWhy>>
           ELSE IF o = t
           THEN /\ pc' = pc
                /\ idx' = [idx EXCEPT ![t] = @ + 1]
                /\ hWhy' = hWhy
           ELSE /\ pc' = [pc EXCEPT ![t] = "exec"]
                /\ idx' = [idx EXCEPT ![t] = 1]
                /\ hWhy' = [hWhy EXCEPT ![t] = "owner"]
    /\ UNCHANGED <<mem, owner, meta, isScanning, ai, oi, loc, main, hist0, tvs, hrw>>

\* The guard v != nil of a branch is false (always so while scanning,
\* where GetTVar returns nil): the branch is skipped.
GuardSkip(t) ==
    /\ pc[t] \in {"scan", "exec"} /\ ~AtEnd(t)
    /\ CurOp(t).op = "RG" /\ tv[t] = NilData
    /\ NextOp(t)
    /\ UNCHANGED <<mem, owner, meta, isScanning, pc, idx, loc, main, hist, tvs, hrw>>

\* takeOwnerships, first critical section of an iteration: read the owner.
\* nil: go on to install t; t itself: next cell; another transaction:
\* status = false, break, and Go calls rollback.
TakeOwnershipsRead(t) ==
    /\ pc[t] = "own" /\ idx[t] <= Len(writeSet[t])
    /\ LET o == owner[writeSet[t][idx[t]]]
       IN  IF o = NoOwner
           THEN /\ pc' = [pc EXCEPT ![t] = "ownSet"]
                /\ UNCHANGED <<idx, hWhy>>
           ELSE IF o = t
           THEN /\ pc' = pc
                /\ idx' = [idx EXCEPT ![t] = @ + 1]
                /\ hWhy' = hWhy
           ELSE /\ pc' = [pc EXCEPT ![t] = "rollback"]
                /\ idx' = [idx EXCEPT ![t] = 1]
                /\ hWhy' = [hWhy EXCEPT ![t] = "owner"]
    /\ UNCHANGED <<mem, owner, meta, isScanning, ai, oi, loc, main, hist0, tvs, hrw>>

\* takeOwnerships, second critical section: _Ownerships[i] = t.
TakeOwnershipsSet(t) ==
    /\ pc[t] = "ownSet"
    /\ owner' = [owner EXCEPT ![writeSet[t][idx[t]]] = t]
    /\ idx' = [idx EXCEPT ![t] = @ + 1]
    /\ pc' = [pc EXCEPT ![t] = "own"]
    /\ UNCHANGED <<mem, meta, isScanning, ai, oi, loc, main, hist, tvs, hrw>>

\* takeOwnerships returned true: executeActions starts.
TakeOwnershipsDone(t) ==
    /\ pc[t] = "own" /\ idx[t] > Len(writeSet[t])
    /\ pc' = [pc EXCEPT ![t] = "exec"]
    /\ ai' = [ai EXCEPT ![t] = 1]
    /\ oi' = [oi EXCEPT ![t] = 1]
    /\ loc' = [loc EXCEPT ![t] = [c \in Cells |-> 0]]
    /\ UNCHANGED <<mem, owner, meta, isScanning, idx, main, hist, tvs, hrw>>

\* Mutant of ExecReadT: the backup is the value the scan-phase ReadT saw.
ExecReadTScanBackup(t) ==
    /\ pc[t] = "exec" /\ ~AtEnd(t) /\ Reads(t)
    /\ LET c == CurOp(t).cell
           rStatus == Decodable(mem[c])
       IN  /\ mem' = [mem EXCEPT ![c] = readData(@)]
           /\ IF rStatus
              THEN /\ loc' = [loc EXCEPT ![t][c] = Decode(mem[c])]
                   /\ oldValues' = [oldValues EXCEPT ![t] =
                          Put(@, c, Get(hScanRead[t], c))]
                   /\ hReadSrc' = [hReadSrc EXCEPT ![t] = hSrc[c]]
                   /\ hReadBack' = [hReadBack EXCEPT ![t] =
                          [staged |-> Get(hStaged[t], c),
                           got |-> Box(Decode(mem[c]))]]
                   /\ hExecRead' = [hExecRead EXCEPT ![t] =
                          Put(@, c, Box(Decode(mem[c])))]
                   /\ hChanged' = [hChanged EXCEPT ![t] = @ \ {c}]
              ELSE UNCHANGED <<loc, oldValues, hReadSrc, hReadBack, hExecRead,
                               hChanged>>
           /\ hCodec' = [hCodec EXCEPT ![t] = @ \/ ~rStatus]
    /\ NextOp(t)
    /\ UNCHANGED <<owner, status, version, readSet, writeSet, isScanning, pc,
                   idx, main, hVerAtExec, hMemAtExec, hInstalled, hSrc, hRetried,
                   hSnap, hWhy, hAtt, tvs, hStaged, hScanRead>>

\* ReadT in the execute phase: read the cell under the mutex and take the
\* backup oldValues[memcell] = dataContainer.
ExecReadT(t) ==
    /\ pc[t] = "exec" /\ ~AtEnd(t) /\ Reads(t)
    /\ LET c == CurOp(t).cell
           rStatus == Decodable(mem[c])
       IN  /\ mem' = [mem EXCEPT ![c] = readData(@)]
           /\ IF rStatus
              THEN /\ loc' = [loc EXCEPT ![t][c] = Decode(mem[c])]
                   /\ oldValues' = [oldValues EXCEPT ![t] =
                          Put(@, c, Box(Decode(mem[c])))]
                   /\ hReadSrc' = [hReadSrc EXCEPT ![t] = hSrc[c]]
                   /\ hReadBack' = [hReadBack EXCEPT ![t] =
                          [staged |-> Get(hStaged[t], c),
                           got |-> Box(Decode(mem[c]))]]
                   /\ hExecRead' = [hExecRead EXCEPT ![t] =
                          Put(@, c, Box(Decode(mem[c])))]
                   /\ hChanged' = [hChanged EXCEPT ![t] = @ \ {c}]
              ELSE UNCHANGED <<loc, oldValues, hReadSrc, hReadBack, hExecRead,
                               hChanged>>
           /\ hCodec' = [hCodec EXCEPT ![t] = @ \/ ~rStatus]
    /\ NextOp(t)
    /\ UNCHANGED <<owner, status, version, readSet, writeSet, isScanning, pc,
                   idx, main, hVerAtExec, hMemAtExec, hInstalled, hSrc, hRetried,
                   hSnap, hWhy, hAtt, tvs, hStaged, hScanRead>>

\* Mutant of ExecWriteT: the data is staged without the owner test.
ExecWriteTUnchecked(t) ==
    /\ pc[t] = "exec" /\ ~AtEnd(t) /\ CurOp(t).op \in {"W", "N"}
    /\ LET c == CurOp(t).cell
           data == IF CurOp(t).op = "N" THEN NilData
                   ELSE Box(loc[t][CurOp(t).src] + CurOp(t).add)
       IN  IF TRUE
           THEN /\ oldValues' = [oldValues EXCEPT ![t] = Put(@, c, data)]
                /\ hStaged' = [hStaged EXCEPT ![t] = Put(@, c, data)]
                /\ NextOp(t)
                /\ UNCHANGED <<pc, idx, hWhy>>
           ELSE /\ pc' = [pc EXCEPT ![t] = "rollback"]
                /\ idx' = [idx EXCEPT ![t] = 1]
                /\ hWhy' = [hWhy EXCEPT ![t] = "write"]
                /\ UNCHANGED <<oldValues, ai, oi, hStaged>>
    /\ UNCHANGED <<mem, owner, status, version, readSet, writeSet, isScanning,
                   loc, main, hist0, tvs, hReadBack, hCodec, hScanRead, hExecRead,
                   hChanged>>

\* WriteT in the execute phase: read the owner under the mutex; the owner
\* stages the data in oldValues, anyone else gets false, the action returns
\* false, executeActions returns false and Go calls rollback.
ExecWriteT(t) ==
    /\ pc[t] = "exec" /\ ~AtEnd(t) /\ CurOp(t).op \in {"W", "N"}
    /\ LET c == CurOp(t).cell
           data == IF CurOp(t).op = "N" THEN NilData
                   ELSE Box(loc[t][CurOp(t).src] + CurOp(t).add)
       IN  IF owner[c] = t
           THEN /\ oldValues' = [oldValues EXCEPT ![t] = Put(@, c, data)]
                /\ hStaged' = [hStaged EXCEPT ![t] = Put(@, c, data)]
                /\ NextOp(t)
                /\ UNCHANGED <<pc, idx, hWhy>>
           ELSE /\ pc' = [pc EXCEPT ![t] = "rollback"]
                /\ idx' = [idx EXCEPT ![t] = 1]
                /\ hWhy' = [hWhy EXCEPT ![t] = "write"]
                /\ UNCHANGED <<oldValues, ai, oi, hStaged>>
    /\ UNCHANGED <<mem, owner, status, version, readSet, writeSet, isScanning,
                   loc, main, hist0, tvs, hReadBack, hCodec, hScanRead, hExecRead,
                   hChanged>>

\* Mutant of ExecActionReturn: the action's result is ignored, as
\* scanActions does.
ExecActionReturnIgnored(t) ==
    /\ pc[t] = "exec" /\ ~AtEnd(t) /\ CurOp(t).op \in {"T", "F"}
    /\ NextAction(t)
    /\ UNCHANGED <<mem, owner, meta, isScanning, pc, idx, loc, main, hist, tvs, hrw>>

\* Mutant of ExecActionReturn: on false Go continues with the next attempt
\* without calling rollback.
ExecActionReturnNoRollback(t) ==
    /\ pc[t] = "exec" /\ ~AtEnd(t) /\ CurOp(t).op \in {"T", "F"}
    /\ IF CurOp(t).op = "T"
       THEN /\ NextAction(t)
            /\ UNCHANGED <<pc, idx, hWhy>>
       ELSE /\ pc' = [pc EXCEPT ![t] = "go"]
            /\ idx' = [idx EXCEPT ![t] = 1]
            /\ hWhy' = [hWhy EXCEPT ![t] = "action"]
            /\ UNCHANGED <<ai, oi>>
    /\ UNCHANGED <<mem, owner, meta, isScanning, loc, main, hist0, tvs, hrw>>

\* An action returns in the execute phase: true goes on with the next
\* action, false makes executeActions return false.
ExecActionReturn(t) ==
    /\ pc[t] = "exec" /\ ~AtEnd(t) /\ CurOp(t).op \in {"T", "F"}
    /\ IF CurOp(t).op = "T"
       THEN /\ NextAction(t)
            /\ UNCHANGED <<pc, idx, hWhy>>
       ELSE /\ pc' = [pc EXCEPT ![t] = "rollback"]
            /\ idx' = [idx EXCEPT ![t] = 1]
            /\ hWhy' = [hWhy EXCEPT ![t] = "action"]
            /\ UNCHANGED <<ai, oi>>
    /\ UNCHANGED <<mem, owner, meta, isScanning, loc, main, hist0, tvs, hrw>>

\* executeActions returned true: commit starts with the readSet check.
ExecDone(t) ==
    /\ pc[t] = "exec" /\ AtEnd(t)
    /\ pc' = [pc EXCEPT ![t] = "validate"]
    /\ idx' = [idx EXCEPT ![t] = 1]
    /\ UNCHANGED <<mem, owner, meta, isScanning, ai, oi, loc, main, hist, tvs, hrw>>

----------------------------------------------------------------------------
(* commit and rollback                                                      *)

\* Another goroutine is about to run readData or writeData on cell c.
Touching(u, c) ==
    \/ pc[u] \in {"scan", "exec"} /\ ~AtEnd(u)
         /\ Reads(u) /\ CurOp(u).cell = c
    \/ pc[u] = "cmtWrite" /\ writeSet[u][idx[u]] = c

\* The results reflect.DeepEqual(buffer.Bytes(), current.Bytes()) can give
\* for readSet member c.  current.Bytes() is read after the mutex has been
\* released: it sees the buffer as it is at that time, or, racing with a
\* readData / writeData of another goroutine, a buffer that is being
\* consumed or refilled, which differs from the backup.
BackupMatches(t, c) ==
    {Encode(Get(oldValues[t], c)) = mem[c]}
        \cup {FALSE : u \in {x \in Txns \ {t} : Touching(x, c)}}

\* Mutant of CommitValidate: the writeSet test is inverted, a mismatch
\* fails the commit only for a cell that is in the writeSet.
CommitValidateInverted(t) ==
    /\ pc[t] = "validate" /\ idx[t] <= Len(readSet[t])
    /\ LET c == readSet[t][idx[t]]
       IN  \E same \in BackupMatches(t, c) :
             IF ~same /\ contains(writeSet[t], c)
             THEN /\ pc' = [pc EXCEPT ![t] = "rollback"]
                  /\ idx' = [idx EXCEPT ![t] = 1]
                  /\ hWhy' = [hWhy EXCEPT ![t] = "read"]
             ELSE /\ pc' = pc
                  /\ idx' = [idx EXCEPT ![t] = @ + 1]
                  /\ hWhy' = hWhy
    /\ UNCHANGED <<mem, owner, meta, isScanning, ai, oi, loc, main, hist0, tvs, hrw>>

\* Mutant of CommitValidate: the test "the cell is not in the writeSet" is
\* left out, every mismatch fails the commit.
CommitValidateNoSkip(t) ==
    /\ pc[t] = "validate" /\ idx[t] <= Len(readSet[t])
    /\ LET c == readSet[t][idx[t]]
       IN  \E same \in BackupMatches(t, c) :
             IF ~same
             THEN /\ pc' = [pc EXCEPT ![t] = "rollback"]
                  /\ idx' = [idx EXCEPT ![t] = 1]
                  /\ hWhy' = [hWhy EXCEPT ![t] = "read"]
             ELSE /\ pc' = pc
                  /\ idx' = [idx EXCEPT ![t] = @ + 1]
                  /\ hWhy' = hWhy
    /\ UNCHANGED <<mem, owner, meta, isScanning, ai, oi, loc, main, hist0, tvs, hrw>>

\* Mutant of CommitValidate: the comparison is left out, every readSet
\* member passes.
CommitValidateBlind(t) ==
    /\ pc[t] = "validate" /\ idx[t] <= Len(readSet[t])
    /\ idx' = [idx EXCEPT ![t] = @ + 1]
    /\ UNCHANGED <<mem, owner, meta, isScanning, pc, ai, oi, loc, main, hist, tvs, hrw>>

\* commit, one iteration of the readSet loop.  A mismatch on a cell that is
\* not in the writeSet sets cmtStatus = false and breaks; the install loop
\* is skipped, commit returns false and Go calls rollback.
CommitValidate(t) ==
    /\ pc[t] = "validate" /\ idx[t] <= Len(readSet[t])
    /\ LET c == readSet[t][idx[t]]
       IN  \E same \in BackupMatches(t, c) :
             IF ~same /\ ~contains(writeSet[t], c)
             THEN /\ pc' = [pc EXCEPT ![t] = "rollback"]
                  /\ idx' = [idx EXCEPT ![t] = 1]
                  /\ hWhy' = [hWhy EXCEPT ![t] = "read"]
             ELSE /\ pc' = pc
                  /\ idx' = [idx EXCEPT ![t] = @ + 1]
                  /\ hWhy' = hWhy
    /\ UNCHANGED <<mem, owner, meta, isScanning, ai, oi, loc, main, hist0, tvs, hrw>>

\* The readSet loop ended with cmtStatus = true: the install loop starts.
CommitValidated(t) ==
    /\ pc[t] = "validate" /\ idx[t] > Len(readSet[t])
    /\ pc' = [pc EXCEPT ![t] = "cmtCheck"]
    /\ idx' = [idx EXCEPT ![t] = 1]
    /\ UNCHANGED <<mem, owner, meta, isScanning, ai, oi, loc, main, hist, tvs, hrw>>

\* Install loop, first critical section: is t still the owner?  If not,
\* cmtStatus = false, break, commit returns false and Go calls rollback.
CommitCheckOwner(t) ==
    /\ pc[t] = "cmtCheck" /\ idx[t] <= Len(writeSet[t])
    /\ IF owner[writeSet[t][idx[t]]] = t
       THEN /\ pc' = [pc EXCEPT ![t] = "cmtWrite"]
            /\ UNCHANGED <<idx, hWhy>>
       ELSE /\ pc' = [pc EXCEPT ![t] = "rollback"]
            /\ idx' = [idx EXCEPT ![t] = 1]
            /\ hWhy' = [hWhy EXCEPT ![t] = "lost"]
    /\ UNCHANGED <<mem, owner, meta, isScanning, ai, oi, loc, main, hist0, tvs, hrw>>

\* Mutant of CommitInstall: the data is written, the ownership is kept.
CommitInstallKeepsOwner(t) ==
    /\ pc[t] = "cmtWrite"
    /\ LET c == writeSet[t][idx[t]]
       IN  /\ mem' = [mem EXCEPT ![c] = writeData(Get(oldValues[t], c))]
           /\ owner' = owner
           /\ hInstalled' = [hInstalled EXCEPT ![t] = @ \cup {c}]
           /\ hSrc' = [hSrc EXCEPT ![c] = Origin("pending", t)]
           /\ hCodec' = [hCodec EXCEPT ![t] = @ \/ Get(oldValues[t], c) = NilData]
           /\ hChanged' = [u \in Txns |->
                  IF /\ u # t /\ c \in DOMAIN hExecRead[u]
                     /\ writeData(Get(oldValues[t], c)) # Encode(hExecRead[u][c])
                  THEN hChanged[u] \cup {c} ELSE hChanged[u]]
    /\ idx' = [idx EXCEPT ![t] = @ + 1]
    /\ pc' = [pc EXCEPT ![t] = "cmtCheck"]
    /\ UNCHANGED <<meta, isScanning, ai, oi, loc, main, hVerAtExec, hMemAtExec,
                   hReadSrc, hRetried, hSnap, hWhy, hAtt, tvs, hStaged,
                   hReadBack, hScanRead, hExecRead>>

\* Install loop, second critical section: writeData(oldValues[cell]) and
\* _Ownerships[cell] = nil.
CommitInstall(t) ==
    /\ pc[t] = "cmtWrite"
    /\ LET c == writeSet[t][idx[t]]
       IN  /\ mem' = [mem EXCEPT ![c] = writeData(Get(oldValues[t], c))]
           /\ owner' = [owner EXCEPT ![c] = NoOwner]
           /\ hInstalled' = [hInstalled EXCEPT ![t] = @ \cup {c}]
           /\ hSrc' = [hSrc EXCEPT ![c] = Origin("pending", t)]
           /\ hCodec' = [hCodec EXCEPT ![t] = @ \/ Get(oldValues[t], c) = NilData]
           /\ hChanged' = [u \in Txns |->
                  IF /\ u # t /\ c \in DOMAIN hExecRead[u]
                     /\ writeData(Get(oldValues[t], c)) # Encode(hExecRead[u][c])
                  THEN hChanged[u] \cup {c} ELSE hChanged[u]]
    /\ idx' = [idx EXCEPT ![t] = @ + 1]
    /\ pc' = [pc EXCEPT ![t] = "cmtCheck"]
    /\ UNCHANGED <<meta, isScanning, ai, oi, loc, main, hVerAtExec, hMemAtExec,
                   hReadSrc, hRetried, hSnap, hWhy, hAtt, tvs, hStaged,
                   hReadBack, hScanRead, hExecRead>>

\* Mutant of CommitDone: a successful commit clears the whole ownership
\* table.
CommitDoneReleasesAll(t) ==
    /\ pc[t] = "cmtCheck" /\ idx[t] > Len(writeSet[t])
    /\ readSet' = [readSet EXCEPT ![t] = <<>>]
    /\ writeSet' = [writeSet EXCEPT ![t] = <<>>]
    /\ oldValues' = [oldValues EXCEPT ![t] = EmptyMap]
    /\ status' = [status EXCEPT ![t] = TRUE]
    /\ version' = [version EXCEPT ![t] = @ + 1]
    /\ wg' = wg - 1
    /\ pc' = [pc EXCEPT ![t] = "idle"]
    /\ hSnap' = [hSnap EXCEPT ![t] = oldValues[t]]
    /\ hSrc' = [c \in Cells |-> Resolve(hSrc[c], t, "committed")]
    /\ hReadSrc' = [u \in Txns |-> Resolve(hReadSrc[u], t, "committed")]
    /\ owner' = [c \in Cells |-> NoOwner]
    /\ UNCHANGED <<mem, isScanning, ai, oi, idx, loc, mainpc, round, scn, mk,
                   actions, hVerAtExec, hMemAtExec, hInstalled, hRetried,
                   hWhy, hAtt, tvs, hrw>>

\* commit returns true: the sets are reset; Go sets status = true,
\* version++, leaves the loop and calls wg.Done().
CommitDone(t) ==
    /\ pc[t] = "cmtCheck" /\ idx[t] > Len(writeSet[t])
    /\ readSet' = [readSet EXCEPT ![t] = <<>>]
    /\ writeSet' = [writeSet EXCEPT ![t] = <<>>]
    /\ oldValues' = [oldValues EXCEPT ![t] = EmptyMap]
    /\ status' = [status EXCEPT ![t] = TRUE]
    /\ version' = [version EXCEPT ![t] = @ + 1]
    /\ wg' = wg - 1
    /\ pc' = [pc EXCEPT ![t] = "idle"]
    /\ hSnap' = [hSnap EXCEPT ![t] = oldValues[t]]
    /\ hSrc' = [c \in Cells |-> Resolve(hSrc[c], t, "committed")]
    /\ hReadSrc' = [u \in Txns |-> Resolve(hReadSrc[u], t, "committed")]
    /\ UNCHANGED <<mem, owner, isScanning, ai, oi, idx, loc, mainpc, round, scn, mk,
                   actions, hVerAtExec, hMemAtExec, hInstalled, hRetried,
                   hWhy, hAtt, tvs, hrw>>

\* Mutant of RollbackRelease: the loop visits the cell without releasing it.
RollbackReleaseKeeps(t) ==
    /\ pc[t] = "rollback" /\ idx[t] <= Len(writeSet[t])
    /\ idx' = [idx EXCEPT ![t] = @ + 1]
    /\ UNCHANGED <<mem, owner, meta, isScanning, pc, ai, oi, loc, main, hist, tvs, hrw>>

\* rollback, one iteration: release the cell if t is its owner.
RollbackRelease(t) ==
    /\ pc[t] = "rollback" /\ idx[t] <= Len(writeSet[t])
    /\ LET c == writeSet[t][idx[t]]
       IN  owner' = [owner EXCEPT ![c] = IF @ = t THEN NoOwner ELSE @]
    /\ idx' = [idx EXCEPT ![t] = @ + 1]
    /\ UNCHANGED <<mem, meta, isScanning, pc, ai, oi, loc, main, hist, tvs, hrw>>

\* Mutant of RollbackDone: the readSet and the oldValues map are reset, the
\* writeSet is kept.
RollbackDoneKeepsWriteSet(t) ==
    /\ pc[t] = "rollback" /\ idx[t] > Len(writeSet[t])
    /\ readSet' = [readSet EXCEPT ![t] = <<>>]
    /\ oldValues' = [oldValues EXCEPT ![t] = EmptyMap]
    /\ pc' = [pc EXCEPT ![t] = "go"]
    /\ hSrc' = [c \in Cells |-> Resolve(hSrc[c], t, "aborted")]
    /\ hReadSrc' = [u \in Txns |-> Resolve(hReadSrc[u], t, "aborted")]
    /\ hRetried' = [hRetried EXCEPT ![t] = TRUE]
    /\ UNCHANGED <<mem, owner, status, version, writeSet, isScanning, ai, oi, idx,
                   loc, main, hVerAtExec, hMemAtExec, hInstalled, hSnap,
                   hWhy, hAtt, tvs, hrw>>

\* Mutant of RollbackDone: the version is incremented on the rollback path too.
RollbackDoneBumpsVersion(t) ==
    /\ pc[t] = "rollback" /\ idx[t] > Len(writeSet[t])
    /\ readSet' = [readSet EXCEPT ![t] = <<>>]
    /\ writeSet' = [writeSet EXCEPT ![t] = <<>>]
    /\ oldValues' = [oldValues EXCEPT ![t] = EmptyMap]
    /\ version' = [version EXCEPT ![t] = @ + 1]
    /\ pc' = [pc EXCEPT ![t] = "go"]
    /\ hSrc' = [c \in Cells |-> Resolve(hSrc[c], t, "aborted")]
    /\ hReadSrc' = [u \in Txns |-> Resolve(hReadSrc[u], t, "aborted")]
    /\ hRetried' = [hRetried EXCEPT ![t] = TRUE]
    /\ UNCHANGED <<mem, owner, status, isScanning, ai, oi, idx, loc,
                   main, hVerAtExec, hMemAtExec, hInstalled, hSnap,
                   hWhy, hAtt, tvs, hrw>>

\* rollback resets the sets and returns; Go continues with the next attempt.
RollbackDone(t) ==
    /\ pc[t] = "rollback" /\ idx[t] > Len(writeSet[t])
    /\ readSet' = [readSet EXCEPT ![t] = <<>>]
    /\ writeSet' = [writeSet EXCEPT ![t] = <<>>]
    /\ oldValues' = [oldValues EXCEPT ![t] = EmptyMap]
    /\ pc' = [pc EXCEPT ![t] = "go"]
    /\ hSrc' = [c \in Cells |-> Resolve(hSrc[c], t, "aborted")]
    /\ hReadSrc' = [u \in Txns |-> Resolve(hReadSrc[u], t, "aborted")]
    /\ hRetried' = [hRetried EXCEPT ![t] = TRUE]
    /\ UNCHANGED <<mem, owner, status, version, isScanning, ai, oi, idx, loc,
                   main, hVerAtExec, hMemAtExec, hInstalled, hSnap,
                   hWhy, hAtt, tvs, hrw>>

----------------------------------------------------------------------------
Next ==
    \/ ExecCall
    \/ ExecReturn
    \/ \E t \in Txns : GoLoop(t)
    \/ \E t \in Txns : ScanReadT(t)
    \/ \E t \in Txns : ScanWriteT(t)
    \/ \E t \in Txns : ScanReturn(t)
    \/ \E t \in Txns : ScanEnd(t)
    \/ \E t \in Txns : TakeOwnershipsRead(t)
    \/ \E t \in Txns : TakeOwnershipsSet(t)
    \/ \E t \in Txns : TakeOwnershipsDone(t)
    \/ \E t \in Txns : ExecReadT(t)
    \/ \E t \in Txns : ExecWriteT(t)
    \/ \E t \in Txns : ExecActionReturn(t)
    \/ \E t \in Txns : ExecDone(t)
    \/ \E t \in Txns : CommitValidate(t)
    \/ \E t \in Txns : CommitValidated(t)
    \/ \E t \in Txns : CommitCheckOwner(t)
    \/ \E t \in Txns : CommitInstall(t)
    \/ \E t \in Txns : CommitDone(t)
    \/ \E t \in Txns : RollbackRelease(t)
    \/ \E t \in Txns : RollbackDone(t)
    \/ \E t \in Txns : TVarGet(t)
    \/ \E t \in Txns : TVarPut(t)
    \/ \E t \in Txns : GuardSkip(t)

Spec == Init /\ [][Next]_vars

\* One step of the goroutine running t.Go
GoStep(t) ==
    \/ GoLoop(t)
    \/ ScanReadT(t) \/ ScanWriteT(t) \/ ScanReturn(t) \/ ScanEnd(t)
    \/ TakeOwnershipsRead(t) \/ TakeOwnershipsSet(t) \/ TakeOwnershipsDone(t)
    \/ ExecReadT(t) \/ ExecWriteT(t) \/ ExecActionReturn(t) \/ ExecDone(t)
    \/ CommitValidate(t) \/ CommitValidated(t)
    \/ CommitCheckOwner(t) \/ CommitInstall(t) \/ CommitDone(t)
    \/ RollbackRelease(t) \/ RollbackDone(t)
    \/ TVarGet(t) \/ TVarPut(t) \/ GuardSkip(t)

\* The Go scheduler is preemptive: a goroutine that can run is eventually
\* run.  Each t.Go goroutine and the caller of Exec get weak fairness.
FairSpec ==
    /\ Spec
    /\ \A t \in Txns : WF_vars(GoStep(t))
    /\ WF_vars(ExecCall \/ ExecReturn)

----------------------------------------------------------------------------
(* STM.MakeMemCell, called from several threads on a fresh STM.             *)

txn == <<mem, owner, meta, isScanning, pc, ai, oi, idx, loc, wg, mainpc, round,
         scn, actions, hist, tvs, hrw>>

\* newMemCell.cellIndex = uint(len(stm._Memory)), read without the mutex:
\* the thread sees its own earlier appends and any number of the appends the
\* other threads have made since; then writeData(data) succeeds.
MakeMemCell(k) ==
    /\ ~mkFatal /\ mkpc[k] = "idle" /\ mkLeft[k] > 0
    /\ \E n \in mkSeen[k]..Len(store) :
           mkCell' = [mkCell EXCEPT ![k] =
                         [cellIndex |-> n, data |-> writeData(Box(3))]]
    /\ mkpc' = [mkpc EXCEPT ![k] = "append"]
    /\ UNCHANGED <<store, mkSeen, mkLeft, mkFatal, txn>>

\* writeData(data) fails: log.Fatalln ends the process
MakeMemCellFatal(k) ==
    /\ ~mkFatal /\ mkpc[k] = "idle" /\ mkLeft[k] > 0
    /\ ~Decodable(writeData(NilData))
    /\ mkFatal' = TRUE
    /\ UNCHANGED <<store, mkpc, mkCell, mkSeen, mkLeft, txn>>

\* stm._Memory = append(stm._Memory, newMemCell), under stmMutex
MakeMemCellAppend(k) ==
    /\ ~mkFatal /\ mkpc[k] = "append"
    /\ store' = Append(store, mkCell[k])
    /\ mkSeen' = [mkSeen EXCEPT ![k] = Len(store) + 1]
    /\ mkLeft' = [mkLeft EXCEPT ![k] = @ - 1]
    /\ mkpc' = [mkpc EXCEPT ![k] = "idle"]
    /\ UNCHANGED <<mkCell, mkFatal, txn>>

MakeInit == Init /\ scn = 1

MakeNext ==
    \/ \E k \in Makers : MakeMemCell(k)
    \/ \E k \in Makers : MakeMemCellFatal(k)
    \/ \E k \in Makers : MakeMemCellAppend(k)

MakeSpec == MakeInit /\ [][MakeNext]_vars

----------------------------------------------------------------------------
(* Properties                                                               *)

\* Position of cell c in the sequence s (0 when absent)
IndexOf(s, c) == IF contains(s, c) THEN CHOOSE i \in 1..Len(s) : s[i] = c ELSE 0

\* t's takeOwnerships pass succeeded with c in its writeSet and t has not
\* yet released c in commit: t is in its execute or commit phase.
Owns(t, c) ==
    /\ contains(writeSet[t], c)
    /\ \/ pc[t] \in {"exec", "validate"}
       \/ pc[t] \in {"cmtCheck", "cmtWrite"} /\ IndexOf(writeSet[t], c) >= idx[t]

\* C1: single-writer -- no two different transactions are at the same time
\* in their execute or commit phase holding a common write-set cell.
SingleWriter ==
    \A t1 \in Txns : \A t2 \in Txns \ {t1} : \A c \in Cells :
        ~(Owns(t1, c) /\ Owns(t2, c))

\* C2: no lost update on one cell -- with T1 subtracting 2 and T2 adding 3,
\* whenever Exec has returned the cell holds its initial value plus the
\* number of Exec calls made.
NoLostUpdate ==
    (scn = 1 /\ mainpc = "idle") =>
        Contents(mem)[0] = Box(InitData[1][0] + round)

\* One action run alone on the contents m (cell -> Data), from operation i
\* on; x holds the action's local containers.
RECURSIVE SerialAction(_, _, _, _)
SerialAction(ops, i, m, x) ==
    IF i > Len(ops) \/ ops[i].op \in {"T", "F"} THEN m
    ELSE IF ops[i].op \in {"G", "P"} THEN SerialAction(ops, i + 1, m, x)
    ELSE IF ops[i].op \in {"R", "RG"}
    THEN SerialAction(ops, i + 1, m,
             IF m[ops[i].cell] = NilData THEN x
             ELSE [x EXCEPT ![ops[i].cell] = m[ops[i].cell][1]])
    ELSE IF ops[i].op = "N"
    THEN SerialAction(ops, i + 1, [m EXCEPT ![ops[i].cell] = NilData], x)
    ELSE SerialAction(ops, i + 1,
             [m EXCEPT ![ops[i].cell] = Box(x[ops[i].src] + ops[i].add)], x)

\* The actions of one transaction run alone, one after the other.
RECURSIVE SerialTxn(_, _, _)
SerialTxn(acts, a, m) ==
    IF a > Len(acts) THEN m
    ELSE SerialTxn(acts, a + 1, SerialAction(acts[a], 1, m, [c \in Cells |-> 0]))

\* The transactions run one at a time in the order given by the sequence p.
RECURSIVE SerialOrder(_, _, _)
SerialOrder(p, i, m) ==
    IF i > Len(p) THEN m
    ELSE SerialOrder(p, i + 1, SerialTxn(actions[p[i]], 1, m))

\* All orders of the transactions
Orders ==
    {p \in [1..Cardinality(Passed) -> Passed] : \A i, j \in DOMAIN p : p[i] = p[j] => i = j}

\* C3: serializability -- when Exec has returned, the contents of the
\* cells are those some serial order of the transactions produces from the
\* contents at the call.
Serializable ==
    (mainpc = "idle" /\ round > 0) =>
        \E p \in Orders :
            Contents(mem) = SerialOrder(p, 1, Contents(hMemAtExec))

\* C4: partial writes are never observable -- T1 of ProgReader writes the
\* same new value to cells 0 and 1 in each commit, so a reader that
\* committed saw T1's value in both or in neither: the two payloads it
\* read are equal.
NoPartialRead ==
    (scn = 2 /\ hSnap[2] # EmptyMap) => Get(hSnap[2], 0) = Get(hSnap[2], 1)

\* C5: all-or-nothing -- an attempt that ends in rollback has installed no
\* payload in any cell.
AllOrNothing ==
    \A t \in Txns : pc[t] = "rollback" => hInstalled[t] = {}

\* commit is about to return true to Go
CommitReturns(t) == pc[t] = "cmtCheck" /\ idx[t] > Len(writeSet[t])

\* C6: atomic install -- when commit returns true every cell of the
\* write-set holds the payload the transaction staged for it.
AtomicInstall ==
    \A t \in Txns : CommitReturns(t) =>
        \A i \in 1..Len(writeSet[t]) :
            mem[writeSet[t][i]] = Encode(Get(oldValues[t], writeSet[t][i]))

\* C7: read validity at the commit point -- when commit returns true every
\* cell that was read and not written still holds the payload that was read.
ReadValidAtCommit ==
    \A t \in Txns : CommitReturns(t) =>
        \A i \in 1..Len(readSet[t]) :
            ~contains(writeSet[t], readSet[t][i]) =>
                mem[readSet[t][i]] = Encode(Get(oldValues[t], readSet[t][i]))

\* C8: no torn reads -- ReadT never returns a payload installed by an
\* attempt that ended in rollback.
NoAbortedRead ==
    \A t \in Txns : hReadSrc[t].st # "aborted"

\* C9: Exec returns only after every transaction has committed -- once
\* Exec has returned, every transaction passed to it has status true, has left its
\* loop, and its version is one higher than when Exec was called.
ExecWaitsForAll ==
    (mainpc = "idle" /\ round > 0) =>
        \A t \in Passed :
            /\ status[t]
            /\ pc[t] = "idle"
            /\ version[t] = hVerAtExec[t] + 1

\* Exec has returned after a run in which a transaction had to retry.
ExecReturnedAfterRetry ==
    /\ mainpc = "idle" /\ round > 0
    /\ \E t \in Txns : hRetried[t]

\* C10: rerunnability -- the version counts the commits and nothing else:
\* it is the number of completed Exec calls, plus one once the transaction
\* has committed in the running Exec call, whatever was rolled back.
VersionCountsCommits ==
    /\ \A t \in Passed :
        version[t] = round + (IF mainpc = "waiting" /\ pc[t] = "idle" THEN 1 ELSE 0)
    /\ \A t \in Txns \ Passed : version[t] = 0

\* Every Exec call has returned and a transaction rolled back in the last one.
AllRoundsDoneWithRetry ==
    /\ mainpc = "idle" /\ round = MaxRounds
    /\ \E t \in Txns : hRetried[t] /\ version[t] = MaxRounds

\* C11: termination under no contention -- T1 of ProgSolo, run by Exec with
\* no other transaction running, never enters rollback and never starts a
\* second attempt: each Exec call is one scan, one takeOwnerships, one
\* execute and one commit, and once Exec has returned T1 has committed.
SoloCommitsFirstAttempt ==
    scn = 5 =>
        /\ pc[1] # "rollback"
        /\ ~hRetried[1]
        /\ (mainpc = "idle" /\ round > 0) => (status[1] /\ version[1] = round)

\* T1 of ProgSolo has committed in every Exec call, adding one to cell 0 each time.
SoloAllCommitted ==
    /\ scn = 5 /\ mainpc = "idle" /\ round = MaxRounds
    /\ version[1] = MaxRounds
    /\ Contents(mem)[0] = Box(InitData[5][0] + MaxRounds)

\* C12: ownership is always released -- a transaction whose commit returned
\* true (it left its loop) or whose rollback returned (it is back at the top
\* of its loop or scanning again) is named by no entry of the ownership
\* table; and when Exec has returned every entry is empty.
OwnershipReleased ==
    /\ \A t \in Txns : pc[t] \in {"idle", "go", "scan"} =>
           \A c \in Cells : owner[c] # t
    /\ mainpc = "idle" => \A c \in Cells : owner[c] = NoOwner

\* Both rollback and commit have released: T1 of ProgCross came back from a
\* rollback of an attempt that owned its write-set (the readSet check
\* failed), and T2 has committed.
ReleasedAfterRollbackAndCommit ==
    /\ scn = 4
    /\ pc[1] = "go" /\ hWhy[1] = "read"
    /\ pc[2] = "idle" /\ status[2]

\* C13: a transaction enters the execute phase only as owner of its whole
\* write-set -- when takeOwnerships has returned true and executeActions is
\* at its first action, every cell of the write-set is owned by it.
OwnsWriteSetAtExecute ==
    \A t \in Txns :
        (pc[t] = "exec" /\ ai[t] = 1 /\ oi[t] = 1) =>
            \A i \in 1..Len(writeSet[t]) : owner[writeSet[t][i]] = t

\* C14: ownership is acquired in ascending cell index order -- the cell a
\* takeOwnerships pass is about to acquire has a higher index than every
\* cell the pass attempted before it.
AscendingAcquire ==
    \A t \in Txns :
        (pc[t] \in {"own", "ownSet"} /\ idx[t] <= Len(writeSet[t])) =>
            \A i \in 1..(idx[t] - 1) : writeSet[t][i] < writeSet[t][idx[t]]

\* t holds the ownership of some cell while its takeOwnerships pass is at
\* a cell owned by another transaction
HoldsAndMeetsOwner(t) ==
    /\ pc[t] = "own" /\ idx[t] <= Len(writeSet[t])
    /\ owner[writeSet[t][idx[t]]] \notin {NoOwner, t}
    /\ \E c \in Cells : owner[c] = t

\* C15: no deadlock -- every transaction that is running (handed to Exec
\* and not yet committed) has an enabled step in every reachable state; in
\* particular a transaction that holds one cell and finds the next one owned
\* by another transaction does not wait for it.
NoDeadlock ==
    \A t \in Txns : pc[t] # "idle" => ENABLED GoStep(t)

\* Both transactions of ProgOpposite hold one cell and are at the cell the
\* other one holds.
CrossedOwnerships ==
    scn = 6 /\ HoldsAndMeetsOwner(1) /\ HoldsAndMeetsOwner(2)

\* C16: action abort -- when an action has returned false in the execute
\* phase, the attempt goes through rollback with the failing action as the
\* last one run, it has installed no payload, and the version is the one
\* at the Exec call; when rollback has returned no entry of the ownership
\* table names the transaction, the next step is the top of the loop (a new
\* scan), and for an attempt that ran with no other transaction running the
\* cells and the ownership table are exactly those at its start.
ActionAbort ==
    \A t \in Txns :
        (hWhy[t] = "action" /\ pc[t] \in {"rollback", "go"}) =>
            /\ hInstalled[t] = {}
            /\ version[t] = hVerAtExec[t] /\ ~status[t]
            /\ pc[t] = "rollback" => (~AtEnd(t) /\ CurOp(t).op = "F")
            /\ pc[t] = "go" =>
                  /\ \A c \in Cells : owner[c] # t
                  /\ ENABLED GoLoop(t)
                  /\ hAtt[t].alone => (mem = hAtt[t].mem /\ owner = hAtt[t].owner)

\* T1 of ProgAbort is back from the rollback of an attempt that ran alone,
\* after T2 committed, and that owned both cells of its write-set.
AbortedAloneAfterOwning ==
    /\ scn = 7 /\ pc[1] = "go" /\ hWhy[1] = "action" /\ hAtt[1].alone
    /\ status[2] /\ pc[2] = "idle"

\* C17 as stated: T1 of ProgAbort, whose second action returns false in
\* every execute phase, never commits, and under fair scheduling T2, which
\* writes the cell T1 writes, eventually commits.
AbortingStarvesNobody ==
    /\ [](scn = 7 => (version[1] = 0 /\ ~status[1]))
    /\ <>(scn = 7 => version[2] = 1)

\* C17, amended: T1 of ProgAbort never commits, and under fair scheduling
\* it never keeps a cell -- again and again no entry of the ownership table
\* names it, so T2 is never shut out for good.  That T2 wins the cell in
\* one of those gaps is not guaranteed.
AbortingKeepsNoCell ==
    /\ [](scn = 7 => (version[1] = 0 /\ ~status[1]))
    /\ []<>(scn = 7 => \A c \in Cells : owner[c] # 1)

\* T1 of ProgAbort has aborted and released its cells after T2's
\* takeOwnerships met T1 as owner; T2 has not committed.
AbortedWhileOtherRefused ==
    /\ scn = 7 /\ version[2] = 0
    /\ pc[1] = "go" /\ hWhy[1] = "action"
    /\ pc[2] = "rollback" /\ hWhy[2] = "owner"

\* C18: transactional variables are private -- in ProgTVar, where T1 is
\* seeded with y = 9 and puts x = 7, T2's GetTVar never returns anything
\* but nil, T2's map stays empty, and the cells hold only their initial
\* payload or the 1 that T1 writes with WriteT, never a value of T1's
\* tvars; the ownership table holds only transactions.
TVarsPrivate ==
    scn = 8 =>
        /\ tv[2] = NilData
        /\ tvars[2] = EmptyMap
        /\ \A c \in Cells :
              /\ Contents(mem)[c] \in {Box(InitData[8][c]), Box(1)}
              /\ owner[c] \in Txns \cup {NoOwner}

\* T2 has called GetTVar("x") in its execute phase after T1 put x = 7 and
\* committed.
OtherReadsAfterPut ==
    /\ scn = 8
    /\ hGet[2].name = "x" /\ ~hGet[2].scan
    /\ Get(tvars[1], "x") = Box(7) /\ version[1] >= 1
    /\ Contents(mem)[0] = Box(1)

\* C19: the scan phase neither reads nor writes transactional variables --
\* a GetTVar called while scanning returned nil, a GetTVar called in the
\* execute phase returned the value last seeded or put for the name, and
\* the tvars map holds exactly the seeded values and those put outside a
\* scan.
TVarScanFrame ==
    \A t \in Txns :
        /\ tvars[t] = hPut[t]
        /\ hGet[t].scan => tv[t] = NilData
        /\ ~hGet[t].scan => tv[t] = hGet[t].want

\* T1 of ProgTVar, scanning for the first time, has called GetTVar("y") on
\* the seeded y and then PutTVar("x", 7).
ScannedGetAndPut ==
    /\ scn = 8 /\ pc[1] = "scan" /\ ai[1] = 1 /\ oi[1] = 3
    /\ hGet[1] = [scan |-> TRUE, name |-> "y", want |-> Box(9)]
    /\ "x" \notin DOMAIN tvars[1]

\* C20: write-then-read of the same cell in one transaction -- an
\* execute-phase ReadT of a cell for which an earlier WriteT of the same
\* attempt staged a value returned that staged value.
ReadsOwnWrite ==
    \A t \in Txns :
        hReadBack[t].staged # NilData => hReadBack[t].got = hReadBack[t].staged

\* C21: a cell in both the read-set and the write-set is write-only for
\* validation -- whenever the readSet check has failed a commit, the
\* read-set holds a cell that is not in the write-set; a transaction whose
\* read cells are all written (T1, T2 of ProgCounter) never fails it.
ReadWriteCellNotValidated ==
    \A t \in Txns :
        (pc[t] = "rollback" /\ hWhy[t] = "read") =>
            \E i \in 1..Len(readSet[t]) : ~contains(writeSet[t], readSet[t][i])

\* T1 of ProgCounter has passed the readSet check although cell 0, which
\* it read and wrote, holds a payload other than the one in oldValues.
PassedValidationWithMismatch ==
    /\ scn = 1 /\ pc[1] = "cmtCheck" /\ idx[1] = 1
    /\ contains(readSet[1], 0) /\ contains(writeSet[1], 0)
    /\ mem[0] # Encode(Get(oldValues[1], 0))

\* C22: codec failures are fatal -- a transaction for which a decode in
\* ReadT or an encode in commit's install failed during this Exec call is
\* never reported as committed.
CodecFailureFatal ==
    \A t \in Txns : hCodec[t] => ~status[t]

\* C23: the cells created by MakeMemCell, concurrent calls included, have
\* the indices 0..n-1, each cell's cellIndex being its position in the store.
CellIndicesGapFree ==
    \A i \in 1..Len(store) : store[i].cellIndex = i - 1

\* C24: acquire is an atomic test-and-set -- whenever a step installs a
\* transaction as owner of a cell, the cell's entry was empty just before
\* that step; an entry naming another transaction is never replaced.
AcquireTestAndSet ==
    [][\A c \in Cells :
          (owner'[c] # owner[c] /\ owner'[c] # NoOwner) => owner[c] = NoOwner]_vars

\* C25: release only clears one's own entry -- whenever a step empties the
\* entry of a cell, the step is taken by the transaction the entry named.
ReleaseOwnEntry ==
    [][\A c \in Cells : \A u \in Txns :
          (owner[c] = u /\ owner'[c] = NoOwner) =>
              /\ pc[u] \in {"cmtWrite", "rollback"}
              /\ idx'[u] # idx[u]]_vars

ValidatesReadOnly(t, c) ==
    /\ pc[t] = "validate" /\ idx[t] <= Len(readSet[t]) /\ readSet[t][idx[t]] = c
    /\ ~contains(writeSet[t], c)
    /\ (idx'[t] # idx[t] \/ pc'[t] # pc[t])

\* C27 as stated: when another transaction has installed a different
\* payload in a cell that t only reads, after t's execute-phase ReadT of the
\* cell and before t's validation of it, the commit fails and t rolls back.
DetectsEveryInstall ==
    [][\A t \in Txns : \A c \in Cells :
          (ValidatesReadOnly(t, c) /\ c \in hChanged[t]) => pc'[t] = "rollback"]_vars

\* C27 amended: validation compares bytes -- when, at t's validation of a
\* cell it only reads, the cell's bytes differ from the encoding of the
\* backup taken by t's execute-phase ReadT, the commit fails for that
\* reason and t rolls back (and Go retries it).
DetectsChangedBytes ==
    [][\A t \in Txns : \A c \in Cells :
          (ValidatesReadOnly(t, c) /\ mem[c] # Encode(Get(oldValues[t], c)))
              => (pc'[t] = "rollback" /\ hWhy'[t] = "read")]_vars

\* C27 witness: a commit has failed in validation after another transaction
\* installed a different payload in a cell the transaction only reads.
RolledBackAfterInstall ==
    \E t \in Txns :
        /\ pc[t] = "rollback" /\ hWhy[t] = "read"
        /\ \E c \in hChanged[t] :
              /\ contains(readSet[t], c) /\ ~contains(writeSet[t], c)
              /\ mem[c] # Encode(Get(oldValues[t], c))

\* C28: at the end of every scan phase each cell passed to ReadT during the
\* scan is in the readSet or in the writeSet and neither set has a
\* duplicate; and a step that adds a cell to the readSet adds a cell that is
\* not in the writeSet at that time.
ReadSetConstruction ==
    [][\A t \in Txns :
          /\ (pc[t] = "scan" /\ pc'[t] = "own") =>
                /\ \A c \in DOMAIN hScanRead[t] :
                      contains(readSet[t], c) \/ contains(writeSet[t], c)
                /\ \A i, j \in 1..Len(readSet[t]) :
                      readSet[t][i] = readSet[t][j] => i = j
                /\ \A i, j \in 1..Len(writeSet[t]) :
                      writeSet[t][i] = writeSet[t][j] => i = j
          /\ Len(readSet'[t]) > Len(readSet[t]) =>
                ~contains(writeSet[t], readSet'[t][Len(readSet'[t])])]_vars

\* t takes a step of scanActions
ScanStep(t) ==
    /\ pc[t] = "scan"
    /\ <<ai'[t], oi'[t], pc'[t]>> # <<ai[t], oi[t], pc[t]>>

\* C29: from the start to the end of scanActions the transaction changes
\* neither the payload of a cell nor an entry of the ownership table, and
\* its WriteT returns true (the action goes on, the cell is in the
\* writeSet) whoever owns the cell.
ScanTouchesNothingShared ==
    [][\A t \in Txns :
          ScanStep(t) =>
              /\ mem' = mem /\ owner' = owner
              /\ (~AtEnd(t) /\ CurOp(t).op \in {"W", "N"}) =>
                    /\ pc'[t] = "scan"
                    /\ oi[t] < Len(actions[t][ai[t]]) =>
                          <<ai'[t], oi'[t]>> = <<ai[t], oi[t] + 1>>
                    /\ contains(writeSet'[t], CurOp(t).cell)]_vars

\* C29 witness: a scan has read a cell and passed a cell to WriteT while
\* another transaction owned that cell.
ScannedWriteOfOwnedCell ==
    \E t \in Txns : \E c \in Cells :
        /\ pc[t] = "scan" /\ contains(writeSet[t], c)
        /\ hScanRead[t] # EmptyMap
        /\ owner[c] \notin {NoOwner, t}

\* C30: WriteT in the execute phase returns true and stages the payload
\* exactly when the ownership table names the caller as owner of the cell
\* at the time of the call; otherwise it returns false (the action returns
\* false and the attempt ends in rollback) and the staged values stay as
\* they are; in neither case do the sets, the cells or the ownership table
\* change.
ExecuteWriteNeedsOwner ==
    [][\A t \in Txns :
          (/\ pc[t] = "exec" /\ ~AtEnd(t) /\ CurOp(t).op \in {"W", "N"}
           /\ <<ai'[t], oi'[t], pc'[t]>> # <<ai[t], oi[t], pc[t]>>) =>
              LET c == CurOp(t).cell
                  data == IF CurOp(t).op = "N" THEN NilData
                          ELSE Box(loc[t][CurOp(t).src] + CurOp(t).add)
              IN  /\ IF owner[c] = t
                     THEN /\ pc'[t] = "exec"
                          /\ c \in DOMAIN oldValues'[t] /\ oldValues'[t][c] = data
                          /\ \A d \in DOMAIN oldValues[t] \ {c} :
                                Get(oldValues'[t], d) = oldValues[t][d]
                     ELSE /\ pc'[t] = "rollback"
                          /\ oldValues'[t] = oldValues[t]
                  /\ readSet' = readSet /\ writeSet' = writeSet
                  /\ mem' = mem /\ owner' = owner]_vars

\* C30 witness: WriteT has refused a transaction in its execute phase while
\* another transaction has staged a payload.
RefusedWhileOtherStaged ==
    \E t \in Txns : \E u \in Txns \ {t} :
        /\ pc[t] = "rollback" /\ hWhy[t] = "write"
        /\ hStaged[u] # EmptyMap /\ hStaged[t] = EmptyMap

\* C31: at the start of every scan phase (first attempt, attempt after a
\* rollback, first attempt of a re-run after a commit) the readSet, the
\* writeSet and the oldValues map of the transaction are empty.
AttemptStateReset ==
    \A t \in Txns :
        (pc[t] = "go" \/ (pc[t] = "scan" /\ ai[t] = 1 /\ oi[t] = 1)) =>
            /\ readSet[t] = <<>>
            /\ writeSet[t] = <<>>
            /\ oldValues[t] = EmptyMap

\* C31 witness: a transaction that committed in an earlier Exec starts a
\* scan after its commit failed in validation and it rolled back.
ScanStartsAfterCommitAndRollback ==
    \E t \in Txns :
        /\ pc[t] = "go" /\ version[t] >= 1
        /\ hRetried[t] /\ hWhy[t] = "read"

\* C32: phase order within an attempt -- executeActions is entered only
\* when takeOwnerships has gone through the whole writeSet (returned true),
\* commit only when executeActions has run every action (returned true);
\* a takeOwnerships that stops at a cell of another owner is followed by
\* rollback, and rollback by the top of the loop and a new scan.
PhaseOrder ==
    [][\A t \in Txns :
          /\ (pc[t] # "exec" /\ pc'[t] = "exec") =>
                (pc[t] = "own" /\ idx[t] > Len(writeSet[t]))
          /\ (pc[t] # "validate" /\ pc'[t] = "validate") =>
                (pc[t] = "exec" /\ AtEnd(t))
          /\ (pc[t] = "own" /\ idx[t] <= Len(writeSet[t])
                 /\ owner[writeSet[t][idx[t]]] \notin {NoOwner, t}) =>
                pc'[t] \in {"own", "rollback"}
          /\ pc[t] = "rollback" => pc'[t] \in {"rollback", "go"}
          /\ pc[t] = "go" => pc'[t] \in {"go", "scan"}]_vars

\* C32 witness: a transaction scans again after its takeOwnerships met a
\* cell of another owner, without having run an action in execute mode.
RescansAfterFailedOwnership ==
    \E t \in Txns :
        /\ pc[t] = "scan" /\ hRetried[t] /\ hWhy[t] = "owner"
        /\ hExecRead[t] = EmptyMap /\ hStaged[t] = EmptyMap
        /\ version[t] = 0

\* The actions of t never call WriteT
ReadOnly(t) ==
    /\ t \in Passed
    /\ \A i \in 1..Len(actions[t]) : \A j \in 1..Len(actions[t][i]) :
          actions[t][i][j].op \notin {"W", "N"}

\* C33: a transaction with an empty writeSet never changes shared state --
\* none of its steps changes the payload of a cell or an entry of the
\* ownership table, and its takeOwnerships returns true (Go goes on to
\* executeActions).
EmptyWriteSetChangesNothing ==
    [][\A t \in Txns :
          (/\ ReadOnly(t)
           /\ <<pc'[t], ai'[t], oi'[t], idx'[t]>> # <<pc[t], ai[t], oi[t], idx[t]>>) =>
              /\ Contents(mem') = Contents(mem) /\ mem' = mem
              /\ owner' = owner
              /\ pc[t] = "own" => pc'[t] = "exec"]_vars

\* C33 witness: a transaction that only reads has committed while another
\* transaction held a cell.
ReaderCommittedBesideOwner ==
    \E t \in Txns :
        /\ ReadOnly(t) /\ status[t] /\ pc[t] = "idle" /\ version[t] >= 1
        /\ hSnap[t] # EmptyMap
        /\ \E c \in Cells : owner[c] \notin {NoOwner, t}

\* C34: the payload that commit installs for a writeSet cell is the payload
\* passed to the last WriteT on that cell in the execute phase of the same
\* attempt, whatever ReadT calls the actions made on the cell.
InstallsLastWrite ==
    [][\A t \in Txns :
          (pc[t] = "cmtWrite" /\ pc'[t] = "cmtCheck") =>
              LET c == writeSet[t][idx[t]]
              IN  /\ c \in DOMAIN hStaged[t]
                  /\ mem'[c] = Encode(hStaged[t][c])]_vars

\* C35: every cell a transaction reads with ReadT in the execute phase and
\* does not write is validated at commit, a cell read only in a branch
\* guarded by a non-nil GetTVar result included: when commit starts, each
\* such cell is in the readSet that commit goes through.
ExecuteReadsValidated ==
    \A t \in Txns :
        pc[t] = "validate" =>
            \A c \in DOMAIN hExecRead[t] :
                contains(readSet[t], c) \/ contains(writeSet[t], c)

\* C36: progress on one contended cell -- in ProgCounter (both transactions
\* read and then write cell 0) every call of Exec leads, under weak fairness
\* of the workers, to both transactions having committed and Exec having
\* returned.
ContendedCellProgress ==
    (scn = 1 /\ mainpc = "waiting") ~>
        (mainpc = "idle" /\ status[1] /\ status[2] /\ wg = 0)

\* C36 witness: the last Exec has returned with both transactions
\* committed, T2 after WriteT refused it and it was rolled back and retried.
BothCommittedAfterRetry ==
    /\ scn = 1 /\ mainpc = "idle" /\ round = MaxRounds
    /\ status[1] /\ status[2]
    /\ hRetried[2] /\ hWhy[2] = "write"

\* C37: progress with opposite write orders -- in ProgOpposite (T1 writes
\* cell 0 then cell 1, T2 writes cell 1 then cell 0) every call of Exec
\* leads, under weak fairness of the workers, to a commit of one of the
\* transactions and then to both having committed and Exec having returned.
OppositeOrderProgress ==
    /\ (scn = 6 /\ mainpc = "waiting") ~> (status[1] \/ status[2])
    /\ (scn = 6 /\ mainpc = "waiting") ~>
          (mainpc = "idle" /\ status[1] /\ status[2] /\ wg = 0)

====
